---- MODULE Spec2Model ----
(***************************************************************************)
(* balancebeam (src/proj-2/balancebeam/src/main.rs): a load-balancing      *)
(* reverse proxy.  The model holds the shared ProxyState, one task per     *)
(* accepted client connection (handle_connection, with connect_to_upstream *)
(* inlined at its lock acquisitions and its network connect), the health   *)
(* check task and the rate monitor reset task.  The runtime is tokio's     *)
(* multi-threaded scheduler, so tasks interleave at every step.  A tokio   *)
(* lock whose guard is a temporary of one statement is acquired, used and  *)
(* released in one step; the health check's write guard lives across its   *)
(* probes and is state (rw_writer).                                        *)
(***************************************************************************)
EXTENDS Integers, Sequences, FiniteSets, TLC

\* Bounds of the model.
MaxConns == 2
MaxRate == 1
MaxCalls == 3
MaxLen == 3
MaxThreads == 2

Conns == 1..MaxConns

NoAddr == "none"
NoStatus == 0

\* Configured upstream lists (CmdOptions.upstream): two hosts, or one host
\* with two ports.
Configs == {<<"h1:80", "h2:80">>, <<"h1:80", "h1:81">>}

\* TcpStream::peer_addr().ip(): the address without its port.
IpOf(addr) ==
    CASE addr = "h1:80" -> "h1"
      [] addr = "h1:81" -> "h1"
      [] addr = "h2:80" -> "h2"
      [] OTHER -> NoAddr

Ips == {"h1", "h2"}

Range(s) == {s[i] : i \in 1..Len(s)}

VARIABLES
    upstream_addresses,         \* ProxyState.upstream_addresses
    max_requests_per_minute,    \* ProxyState.max_requests_per_minute
    active_upstream_addresses,  \* the Vec behind ProxyState.active_upstream_addresses
    rw_writer,                  \* the task holding that RwLock's write guard
    rate_monitor,               \* the HashMap behind ProxyState.rate_monitor
    pc,                         \* each connection task's position
    upstream_idx,               \* connect_to_upstream's upstream_idx
    dial_ip,                    \* connect_to_upstream's upstream_ip
    upstream_conn,              \* peer address of handle_connection's upstream_conn
    upstream_ip,                \* handle_connection's upstream_ip
    sending,                    \* status of the response send_response is writing
    hc_pc,                      \* health_check's position
    hc_i,                       \* health_check's position in upstream_addresses
    reset_pc,                   \* reset_rate_monitor's position
    clears,                     \* history: rate_monitor clears so far
    calls,                      \* history: limited check_rate_limit calls per key since the last clear
    stale,                      \* history: connectors whose length read predates a write
    pass_ok,                    \* history: upstreams that answered 200 in the current pass
    probed,                     \* history: upstreams the current pass has dialled
    input,                      \* history: parallel_map's input_vec as it was passed
    input_vec,                  \* parallel_map's input_vec
    num_threads,                \* parallel_map's num_threads
    output_vec,                 \* parallel_map's output_vec
    input_channel,              \* the queue between input_sender and input_receiver
    output_channel,             \* the queue between output_sender and output_receiver
    input_sender,               \* whether input_sender is still alive
    output_senders,             \* the holders of output_sender and its clones (0: parallel_map)
    pm_pc,                      \* parallel_map's position
    thread_pc,                  \* each spawned thread's position
    elem_pair,                  \* each spawned thread's elem_pair
    applied                     \* history: applications of f per index

proxyVars == <<upstream_addresses, max_requests_per_minute, active_upstream_addresses,
               rw_writer, rate_monitor, pc, upstream_idx, dial_ip, upstream_conn,
               upstream_ip, sending, hc_pc, hc_i, reset_pc, clears, calls, stale,
               pass_ok, probed>>

pmVars == <<input, input_vec, num_threads, output_vec, input_channel, output_channel,
            input_sender, output_senders, pm_pc, thread_pc, elem_pair, applied>>

vars == <<proxyVars, pmVars>>

connVars == <<pc, upstream_idx, dial_ip, upstream_conn, upstream_ip, sending>>
hcVars == <<hc_pc, hc_i, pass_ok, probed>>
resetVars == <<reset_pc, clears>>
cfgVars == <<upstream_addresses, max_requests_per_minute>>

----------------------------------------------------------------------------
\* main: ProxyState construction.

\* active_upstream_addresses: Arc::new(RwLock::new(options.upstream))
InitialActive(upstream) == upstream

\* rate_monitor: Arc::new(Mutex::new(HashMap::new())); an absent key reads
\* as 0, which is what entry().or_default() makes of it.
EmptyMonitor == [k \in Ips |-> 0]

\* The threads parallel_map may spawn.
Threads == 1..MaxThreads

\* parallel_map is not running.
NotCalled ==
    /\ input = <<>>
    /\ input_vec = <<>>
    /\ num_threads = 0
    /\ output_vec = <<>>
    /\ input_channel = <<>>
    /\ output_channel = <<>>
    /\ input_sender = FALSE
    /\ output_senders = {}
    /\ pm_pc = "not_called"
    /\ thread_pc = [w \in Threads |-> "unspawned"]
    /\ elem_pair = [w \in Threads |-> <<>>]
    /\ applied = <<>>

ProxyInit(configs, limits) ==
    /\ upstream_addresses \in configs
    /\ max_requests_per_minute \in limits
    /\ active_upstream_addresses = InitialActive(upstream_addresses)
    /\ rw_writer = "none"
    /\ rate_monitor = EmptyMonitor
    /\ pc = [c \in Conns |-> "idle"]
    /\ upstream_idx = [c \in Conns |-> 0]
    /\ dial_ip = [c \in Conns |-> NoAddr]
    /\ upstream_conn = [c \in Conns |-> NoAddr]
    /\ upstream_ip = [c \in Conns |-> NoAddr]
    /\ sending = [c \in Conns |-> NoStatus]
    /\ hc_pc = "sleep"
    /\ hc_i = 0
    /\ reset_pc = "sleep"
    /\ clears = 0
    /\ calls = [k \in Ips |-> 0]
    /\ stale = {}
    /\ pass_ok = {}
    /\ probed = {}

InitWith(configs, limits) == ProxyInit(configs, limits) /\ NotCalled

Init == InitWith(Configs, 0..MaxRate)

----------------------------------------------------------------------------
\* send_response and the end of a connection task

\* send_response(&mut client_conn, &response).await: the task is suspended
\* writing the response; `after` is where the caller goes on from.
send_response(c, status, after) ==
    /\ pc' = [pc EXCEPT ![c] = after]
    /\ sending' = [sending EXCEPT ![c] = status]

\* handle_connection returns: the task ends and its locals are dropped.
\* `at` names the return statement taken.
Return(c, at) ==
    /\ pc' = [pc EXCEPT ![c] = at]
    /\ upstream_conn' = [upstream_conn EXCEPT ![c] = NoAddr]
    /\ upstream_ip' = [upstream_ip EXCEPT ![c] = NoAddr]
    /\ sending' = [sending EXCEPT ![c] = NoStatus]

\* response::write_to_stream(&response, client_conn).await ends: a failure is
\* logged and send_response returns as after a success.  The caller either
\* goes round its loop again or returns.
SendResponseWith(c, written) ==
    /\ pc[c] \in {"send_then_loop", "send_then_return"}
    /\ written \in BOOLEAN
    /\ IF pc[c] = "send_then_loop"
       THEN /\ pc' = [pc EXCEPT ![c] = "read_request"]
            /\ sending' = [sending EXCEPT ![c] = NoStatus]
            /\ UNCHANGED <<upstream_conn, upstream_ip>>
       ELSE Return(c, "closed")
    /\ UNCHANGED <<pmVars, cfgVars, active_upstream_addresses, rw_writer, rate_monitor,
                   upstream_idx, dial_ip, hcVars, resetVars, calls, stale>>

SendResponse(c) == \E written \in BOOLEAN : SendResponseWith(c, written)

----------------------------------------------------------------------------
\* connect_to_upstream

\* rng.gen_range(0..len): the indices it can return; an empty range panics.
GenRange(len) == 0..(len - 1)

\* Vec::get(idx): zero-based.
Get(vec, idx) == vec[idx + 1]

\* Vec::remove(idx): zero-based, shifts the tail left.
Remove(vec, idx) == SubSeq(vec, 1, idx) \o SubSeq(vec, idx + 2, Len(vec))

\* Connectors between their length read and their element read.
Selecting == {c \in Conns : pc[c] = "get"}

\* main's accept loop spawns handle_connection, which calls connect_to_upstream.
Accept(c) ==
    /\ pc[c] = "idle"
    /\ pc' = [pc EXCEPT ![c] = "len"]
    /\ UNCHANGED <<pmVars, cfgVars, active_upstream_addresses, rw_writer, rate_monitor,
                   upstream_idx, dial_ip, upstream_conn, upstream_ip, sending,
                   hcVars, resetVars, calls, stale>>

\* let upstream_idx = rng.gen_range(0..active.read().await.len());
SelectIndex(c) ==
    /\ pc[c] = "len"
    /\ rw_writer = "none"
    /\ LET len == Len(active_upstream_addresses) IN
       IF GenRange(len) = {}
       THEN /\ pc' = [pc EXCEPT ![c] = "panic_empty_range"]
            /\ UNCHANGED upstream_idx
       ELSE /\ \E i \in GenRange(len) : upstream_idx' = [upstream_idx EXCEPT ![c] = i]
            /\ pc' = [pc EXCEPT ![c] = "get"]
    /\ stale' = stale \ {c}
    /\ UNCHANGED <<pmVars, cfgVars, active_upstream_addresses, rw_writer, rate_monitor,
                   dial_ip, upstream_conn, upstream_ip, sending, hcVars, resetVars, calls>>

\* let upstream_ip = active.read().await.get(upstream_idx).unwrap().clone();
ReadAddress(c) ==
    /\ pc[c] = "get"
    /\ rw_writer = "none"
    /\ IF upstream_idx[c] < Len(active_upstream_addresses)
       THEN /\ dial_ip' = [dial_ip EXCEPT ![c] = Get(active_upstream_addresses, upstream_idx[c])]
            /\ pc' = [pc EXCEPT ![c] = "connect"]
            /\ UNCHANGED upstream_idx
       ELSE /\ pc' = [pc EXCEPT ![c] = "panic_unwrap"]
            /\ upstream_idx' = [upstream_idx EXCEPT ![c] = 0]
            /\ UNCHANGED dial_ip
    /\ UNCHANGED <<pmVars, cfgVars, active_upstream_addresses, rw_writer, rate_monitor,
                   upstream_conn, upstream_ip, sending, hcVars, resetVars, calls, stale>>

\* TcpStream::connect(upstream_ip).await: the network decides.  On Ok the
\* stream is returned and handle_connection takes its peer's ip.
Connect(c) ==
    /\ pc[c] = "connect"
    /\ \E ok \in BOOLEAN :
         IF ok
         THEN /\ pc' = [pc EXCEPT ![c] = "read_request"]
              /\ upstream_conn' = [upstream_conn EXCEPT ![c] = dial_ip[c]]
              /\ upstream_ip' = [upstream_ip EXCEPT ![c] = IpOf(dial_ip[c])]
              /\ upstream_idx' = [upstream_idx EXCEPT ![c] = 0]
              /\ dial_ip' = [dial_ip EXCEPT ![c] = NoAddr]
         ELSE /\ pc' = [pc EXCEPT ![c] = "remove"]
              /\ UNCHANGED <<upstream_conn, upstream_ip, upstream_idx, dial_ip>>
    /\ stale' = stale \ {c}
    /\ UNCHANGED <<pmVars, cfgVars, active_upstream_addresses, rw_writer, rate_monitor,
                   sending, hcVars, resetVars, calls>>

\* active.write().await.remove(upstream_idx); Vec::remove panics out of range.
RemoveFailed(c) ==
    /\ pc[c] = "remove"
    /\ rw_writer = "none"
    /\ IF upstream_idx[c] < Len(active_upstream_addresses)
       THEN /\ active_upstream_addresses' = Remove(active_upstream_addresses, upstream_idx[c])
            /\ pc' = [pc EXCEPT ![c] = "check_empty"]
            /\ stale' = stale \cup Selecting
       ELSE /\ pc' = [pc EXCEPT ![c] = "panic_remove"]
            /\ UNCHANGED <<active_upstream_addresses, stale>>
    /\ upstream_idx' = [upstream_idx EXCEPT ![c] = 0]
    /\ dial_ip' = [dial_ip EXCEPT ![c] = NoAddr]
    /\ UNCHANGED <<pmVars, cfgVars, rw_writer, rate_monitor, upstream_conn, upstream_ip, sending,
                   hcVars, resetVars, calls>>

\* if active.read().await.len() == 0 { return Err(err) }; handle_connection
\* answers the Err with make_http_error(BAD_GATEWAY) and returns.
CheckEmpty(c) ==
    /\ pc[c] = "check_empty"
    /\ rw_writer = "none"
    /\ IF Len(active_upstream_addresses) = 0
       THEN send_response(c, 502, "send_then_return")
       ELSE /\ pc' = [pc EXCEPT ![c] = "len"]
            /\ UNCHANGED sending
    /\ UNCHANGED <<pmVars, cfgVars, active_upstream_addresses, rw_writer, rate_monitor,
                   upstream_idx, dial_ip, upstream_conn, upstream_ip,
                   hcVars, resetVars, calls, stale>>

connect_to_upstream(c) ==
    \/ SelectIndex(c)
    \/ ReadAddress(c)
    \/ Connect(c)
    \/ RemoveFailed(c)
    \/ CheckEmpty(c)

----------------------------------------------------------------------------
\* handle_connection

\* The errors of request::read_from_stream that reach the catch-all arm.
ParseErrors == {"IncompleteRequest", "MalformedRequest", "InvalidContentLength",
                "ContentLengthMismatch", "RequestBodyTooLarge"}
ReadOutcomes == {"Ok", "IncompleteRequest0", "ConnectionError"} \cup ParseErrors

\* The catch-all arm with RequestBodyTooLarge among the bad requests.
ErrorStatusAlwaysBadRequest(error) ==
    CASE error = "ConnectionError" -> 503
      [] OTHER -> 400

\* The match of the catch-all arm: the status of the error response.
ErrorStatus(error) ==
    CASE error = "RequestBodyTooLarge" -> 413
      [] error = "ConnectionError" -> 503
      [] OTHER -> 400

\* The status of an upstream's response, relayed as it is.
UpstreamStatuses == {200}

\* The match without its ConnectionError arm: the error reaches the catch-all.
ReadRequestWithoutErrorArm(c, outcome) ==
    /\ pc[c] = "read_request"
    /\ outcome \in ReadOutcomes
    /\ CASE outcome = "Ok" ->
              /\ pc' = [pc EXCEPT ![c] = "rate_check"]
              /\ UNCHANGED <<upstream_conn, upstream_ip, sending>>
         [] outcome = "IncompleteRequest0" ->
              Return(c, "closed_eof")
         [] OTHER ->
              /\ send_response(c, ErrorStatus(outcome), "send_then_loop")
              /\ UNCHANGED <<upstream_conn, upstream_ip>>
    /\ UNCHANGED <<pmVars, cfgVars, active_upstream_addresses, rw_writer, rate_monitor,
                   upstream_idx, dial_ip, hcVars, resetVars, calls, stale>>

\* request::read_from_stream(&mut client_conn).await and the match on it.
ReadRequestWith(c, outcome) ==
    /\ pc[c] = "read_request"
    /\ outcome \in ReadOutcomes
    /\ CASE outcome = "Ok" ->
              /\ pc' = [pc EXCEPT ![c] = "rate_check"]
              /\ UNCHANGED <<upstream_conn, upstream_ip, sending>>
         [] outcome = "IncompleteRequest0" ->
              Return(c, "closed_eof")
         [] outcome = "ConnectionError" ->
              Return(c, "closed_read_error")
         [] OTHER ->
              /\ send_response(c, ErrorStatus(outcome), "send_then_loop")
              /\ UNCHANGED <<upstream_conn, upstream_ip>>
    /\ UNCHANGED <<pmVars, cfgVars, active_upstream_addresses, rw_writer, rate_monitor,
                   upstream_idx, dial_ip, hcVars, resetVars, calls, stale>>

ReadRequest(c) == \E outcome \in ReadOutcomes : ReadRequestWith(c, outcome)

\* check_rate_limit with the limit compared by >= : the Nth request is refused.
check_rate_limit_refusing_nth(monitor, max, upstream) ==
    IF max = 0
    THEN [monitor |-> monitor, result |-> "Ok"]
    ELSE LET rate == monitor[upstream] + 1 IN
         [monitor |-> [monitor EXCEPT ![upstream] = rate],
          result |-> IF rate >= max THEN "TOO_MANY_REQUESTS" ELSE "Ok"]

\* check_rate_limit counting only the requests it allows.
check_rate_limit_counting_allowed(monitor, max, upstream) ==
    IF max = 0
    THEN [monitor |-> monitor, result |-> "Ok"]
    ELSE IF monitor[upstream] >= max
         THEN [monitor |-> monitor, result |-> "TOO_MANY_REQUESTS"]
         ELSE [monitor |-> [monitor EXCEPT ![upstream] = @ + 1], result |-> "Ok"]

\* check_rate_limit without the early return for a limit of zero.
check_rate_limit_always_counting(monitor, max, upstream) ==
    LET rate == monitor[upstream] + 1 IN
    [monitor |-> [monitor EXCEPT ![upstream] = rate],
     result |-> IF rate > max THEN "TOO_MANY_REQUESTS" ELSE "Ok"]

\* check_rate_limit: the monitor it leaves and what it returns.
check_rate_limit(monitor, max, upstream) ==
    IF max = 0
    THEN [monitor |-> monitor, result |-> "Ok"]
    ELSE LET rate == monitor[upstream] + 1 IN
         [monitor |-> [monitor EXCEPT ![upstream] = rate],
          result |-> IF rate > max THEN "TOO_MANY_REQUESTS" ELSE "Ok"]

\* The rate check without its `continue`: a refused request is answered and
\* then forwarded like an allowed one.
RateCheckWithoutContinue(c) ==
    /\ pc[c] = "rate_check"
    /\ calls[upstream_ip[c]] < MaxCalls
    /\ LET r == check_rate_limit(rate_monitor, max_requests_per_minute, upstream_ip[c]) IN
       /\ rate_monitor' = r.monitor
       /\ sending' = [sending EXCEPT ![c] = IF r.result = "Ok" THEN @ ELSE 429]
    /\ pc' = [pc EXCEPT ![c] = "forward"]
    /\ calls' = IF max_requests_per_minute = 0 THEN calls
                ELSE [calls EXCEPT ![upstream_ip[c]] = @ + 1]
    /\ UNCHANGED <<pmVars, cfgVars, active_upstream_addresses, rw_writer,
                   upstream_idx, dial_ip, upstream_conn, upstream_ip, hcVars, resetVars, stale>>

\* if let Err(status) = check_rate_limit(state, &upstream_ip).await {
\*     send_response(make_http_error(status)); continue }
\* The model stops counting a key at MaxCalls calls in one window.
RateCheck(c) ==
    /\ pc[c] = "rate_check"
    /\ calls[upstream_ip[c]] < MaxCalls
    /\ LET r == check_rate_limit(rate_monitor, max_requests_per_minute, upstream_ip[c]) IN
       /\ rate_monitor' = r.monitor
       /\ IF r.result = "Ok"
          THEN /\ pc' = [pc EXCEPT ![c] = "forward"]
               /\ UNCHANGED sending
          ELSE send_response(c, 429, "send_then_loop")
    /\ calls' = IF max_requests_per_minute = 0 THEN calls
                ELSE [calls EXCEPT ![upstream_ip[c]] = @ + 1]
    /\ UNCHANGED <<pmVars, cfgVars, active_upstream_addresses, rw_writer,
                   upstream_idx, dial_ip, upstream_conn, upstream_ip, hcVars, resetVars, stale>>

\* The forward that answers a failed write by selecting an upstream again.
ForwardWithRetry(c, ok) ==
    /\ pc[c] = "forward"
    /\ ok \in BOOLEAN
    /\ pc' = [pc EXCEPT ![c] = IF ok THEN "read_response" ELSE "len"]
    /\ UNCHANGED <<pmVars, cfgVars, active_upstream_addresses, rw_writer, rate_monitor,
                   upstream_idx, dial_ip, upstream_conn, upstream_ip, sending,
                   hcVars, resetVars, calls, stale>>

\* request::write_to_stream(&request, &mut upstream_conn).await
ForwardWith(c, ok) ==
    /\ pc[c] = "forward"
    /\ ok \in BOOLEAN
    /\ IF ok
       THEN /\ pc' = [pc EXCEPT ![c] = "read_response"]
            /\ UNCHANGED sending
       ELSE send_response(c, 502, "send_then_return")
    /\ UNCHANGED <<pmVars, cfgVars, active_upstream_addresses, rw_writer, rate_monitor,
                   upstream_idx, dial_ip, upstream_conn, upstream_ip,
                   hcVars, resetVars, calls, stale>>

Forward(c) == \E ok \in BOOLEAN : ForwardWith(c, ok)

\* response::read_from_stream(&mut upstream_conn, ..).await
\* `status` is the status of the response read, NoStatus for an Err.
ReadResponseWith(c, status) ==
    /\ pc[c] = "read_response"
    /\ status \in UpstreamStatuses \cup {NoStatus}
    /\ IF status # NoStatus
       THEN send_response(c, status, "send_then_loop")
       ELSE send_response(c, 502, "send_then_return")
    /\ UNCHANGED <<pmVars, cfgVars, active_upstream_addresses, rw_writer, rate_monitor,
                   upstream_idx, dial_ip, upstream_conn, upstream_ip,
                   hcVars, resetVars, calls, stale>>

ReadResponse(c) ==
    \E status \in UpstreamStatuses \cup {NoStatus} : ReadResponseWith(c, status)

handle_connection(c) ==
    \/ connect_to_upstream(c)
    \/ ReadRequest(c)
    \/ RateCheck(c)
    \/ Forward(c)
    \/ ReadResponse(c)
    \/ SendResponse(c)

----------------------------------------------------------------------------
\* health_check

\* What one probe can end with: connect failed, or the response read after
\* the write (failed or not) gave status 200, another status, or an error.
ProbeOutcomes == {"Ok200", "OkOther", "Err"}

\* The push with the upstream's ip in place of its configured address.
PushPeerIpIfOk(active_servers, upstream, outcome) ==
    IF outcome = "Ok200" THEN Append(active_servers, IpOf(upstream)) ELSE active_servers

\* if let Ok(resp) = .. { if StatusCode::OK == resp.status() { active_servers.push(upstream) } }
PushIfOk(active_servers, upstream, outcome) ==
    IF outcome = "Ok200" THEN Append(active_servers, upstream) ELSE active_servers

\* The pass begun without active_servers.clear().
BeginPassWithoutClear(active_servers) == active_servers

\* let mut active_servers = active.write().await; active_servers.clear();
BeginPass(active_servers) == <<>>

\* The sleep ends; the write guard is taken and the Vec cleared.
HcBegin ==
    /\ hc_pc = "sleep"
    /\ rw_writer = "none"
    /\ rw_writer' = "health_check"
    /\ active_upstream_addresses' = BeginPass(active_upstream_addresses)
    /\ hc_pc' = "connect"
    /\ hc_i' = 1
    /\ pass_ok' = {}
    /\ probed' = {}
    /\ stale' = stale \cup Selecting
    /\ UNCHANGED <<pmVars, cfgVars, rate_monitor, connVars, resetVars, calls>>

\* The for loop moves to the next upstream; after the last one the loop body
\* ends, which drops the write guard, and the task sleeps.
HcAdvance ==
    IF hc_i < Len(upstream_addresses)
    THEN /\ hc_i' = hc_i + 1
         /\ hc_pc' = "connect"
         /\ UNCHANGED rw_writer
    ELSE /\ hc_i' = 0
         /\ hc_pc' = "sleep"
         /\ rw_writer' = "none"

\* TcpStream::connect(upstream).await
HcConnect ==
    /\ hc_pc = "connect"
    /\ \E ok \in BOOLEAN :
         IF ok
         THEN /\ hc_pc' = "write"
              /\ UNCHANGED <<hc_i, rw_writer>>
         ELSE HcAdvance
    /\ probed' = probed \cup {upstream_addresses[hc_i]}
    /\ UNCHANGED <<pmVars, cfgVars, active_upstream_addresses, rate_monitor, connVars,
                   resetVars, calls, stale, pass_ok>>

\* request::write_to_stream(&request, &mut stream).await: an error is logged
\* and the response is read all the same.
HcWrite ==
    /\ hc_pc = "write"
    /\ hc_pc' = "read"
    /\ UNCHANGED <<pmVars, cfgVars, active_upstream_addresses, rw_writer, rate_monitor,
                   connVars, hc_i, resetVars, calls, stale, pass_ok, probed>>

\* response::read_from_stream(&mut stream, ..).await
HcRead ==
    /\ hc_pc = "read"
    /\ \E outcome \in ProbeOutcomes :
         /\ active_upstream_addresses' =
              PushIfOk(active_upstream_addresses, upstream_addresses[hc_i], outcome)
         /\ pass_ok' = IF outcome = "Ok200"
                       THEN pass_ok \cup {upstream_addresses[hc_i]}
                       ELSE pass_ok
    /\ HcAdvance
    /\ UNCHANGED <<pmVars, cfgVars, rate_monitor, connVars, resetVars, calls, stale, probed>>

health_check == HcBegin \/ HcConnect \/ HcWrite \/ HcRead

----------------------------------------------------------------------------
\* reset_rate_monitor

\* Where the task goes after rate_monitor.lock().await.clear(): the function
\* body ends there.
AfterClear == "done"

\* time::sleep(time::Duration::from_secs(60)).await ends.
ResetWake ==
    /\ reset_pc = "sleep"
    /\ reset_pc' = "clear"
    /\ UNCHANGED <<pmVars, cfgVars, active_upstream_addresses, rw_writer, rate_monitor,
                   connVars, hcVars, clears, calls, stale>>

\* state.rate_monitor.lock().await.clear();
ResetClear ==
    /\ reset_pc = "clear"
    /\ rate_monitor' = EmptyMonitor
    /\ reset_pc' = AfterClear
    /\ clears' = clears + 1
    /\ calls' = [k \in Ips |-> 0]
    /\ UNCHANGED <<pmVars, cfgVars, active_upstream_addresses, rw_writer, connVars,
                   hcVars, stale>>

reset_rate_monitor == ResetWake \/ ResetClear

----------------------------------------------------------------------------
Next ==
    \/ \E c \in Conns : Accept(c) \/ handle_connection(c)
    \/ health_check
    \/ reset_rate_monitor

Spec == Init /\ [][Next]_vars

\* Two hosts and no rate limit: the routing state on its own.
RoutingInit == InitWith({<<"h1:80", "h2:80">>}, {0})
RoutingSpec == RoutingInit /\ [][Next]_vars

\* One upstream and a rate limit: every request counts on one key.
RateInit == InitWith({<<"h1:80">>}, 1..MaxRate)
RateSpec == RateInit /\ [][Next]_vars

\* One upstream and no rate limit: the request loop on its own.
SingleUpstreamInit == InitWith({<<"h1:80">>}, {0})
SingleUpstreamSpec == SingleUpstreamInit /\ [][Next]_vars

\* One host behind two ports and a rate limit.
SharedHostInit == InitWith({<<"h1:80", "h1:81">>}, 1..MaxRate)
SharedHostSpec == SharedHostInit /\ [][Next]_vars

----------------------------------------------------------------------------
\* parallel_map

\* The values of the input's elements.
Values == {1, 2}

\* The input vectors: every Vec<T> of at most MaxLen elements.
Inputs == UNION {[1..n -> Values] : n \in 0..MaxLen}

\* U::default() for the integers main maps to.
Default == 0

\* The closure main passes: |num| num * num.
F(num) == num * num

\* The pair the send loop makes of a vector of which `len` elements were
\* passed, were the loop to count its index upwards.
SendPairCountingUp(vec, len) == <<len - Len(vec), vec[Len(vec)]>>

\* for i in (0..input_vec.len()).rev() { send((i, input_vec.pop().unwrap())) }:
\* the pair one iteration sends, `vec` being what is left of the input.
SendPair(vec, len) == <<Len(vec) - 1, vec[Len(vec)]>>

\* parallel_map is entered: output_vec is resized to the input's length with
\* defaults and the two channels are made.
ParallelMapInit ==
    /\ ProxyInit({<<"h1:80">>}, {0})
    /\ input \in Inputs
    /\ input_vec = input
    /\ num_threads \in 0..MaxThreads
    /\ output_vec = [i \in 1..Len(input) |-> Default]
    /\ input_channel = <<>>
    /\ output_channel = <<>>
    /\ input_sender = TRUE
    /\ output_senders = {0}
    /\ pm_pc = "spawn"
    /\ thread_pc = [w \in Threads |-> "unspawned"]
    /\ elem_pair = [w \in Threads |-> <<>>]
    /\ applied = [i \in 1..Len(input) |-> 0]

\* for _ in 0..num_threads { clone the receiver and the sender; thread::spawn }
SpawnThreads ==
    /\ pm_pc = "spawn"
    /\ thread_pc' = [w \in Threads |-> IF w <= num_threads THEN "recv" ELSE "unspawned"]
    /\ output_senders' = output_senders \cup 1..num_threads
    /\ pm_pc' = "send"
    /\ UNCHANGED <<proxyVars, input, input_vec, num_threads, output_vec, input_channel,
                   output_channel, input_sender, elem_pair, applied>>

\* One iteration of the send loop, or its end.
SendInput ==
    /\ pm_pc = "send"
    /\ IF input_vec # <<>>
       THEN /\ input_channel' = Append(input_channel, SendPair(input_vec, Len(input)))
            /\ input_vec' = SubSeq(input_vec, 1, Len(input_vec) - 1)
            /\ UNCHANGED pm_pc
       ELSE /\ pm_pc' = "drop_input_sender"
            /\ UNCHANGED <<input_channel, input_vec>>
    /\ UNCHANGED <<proxyVars, input, num_threads, output_vec, output_channel,
                   input_sender, output_senders, thread_pc, elem_pair, applied>>

\* drop(input_sender);
DropInputSender ==
    /\ pm_pc = "drop_input_sender"
    /\ input_sender' = FALSE
    /\ pm_pc' = "drop_output_sender"
    /\ UNCHANGED <<proxyVars, input, input_vec, num_threads, output_vec, input_channel,
                   output_channel, output_senders, thread_pc, elem_pair, applied>>

\* drop(output_sender);
DropOutputSender ==
    /\ pm_pc = "drop_output_sender"
    /\ output_senders' = output_senders \ {0}
    /\ pm_pc' = "recv"
    /\ UNCHANGED <<proxyVars, input, input_vec, num_threads, output_vec, input_channel,
                   output_channel, input_sender, thread_pc, elem_pair, applied>>

\* while let Ok((idx, data)) = output_receiver.recv() { output_vec[idx] = data; }
\* recv blocks on an empty channel that still has a sender and fails on an
\* empty channel that has none.
RecvOutput ==
    /\ pm_pc = "recv"
    /\ IF output_channel # <<>>
       THEN LET idx == Head(output_channel)[1]
                data == Head(output_channel)[2] IN
            /\ output_channel' = Tail(output_channel)
            /\ IF idx < Len(output_vec)
               THEN /\ output_vec' = [output_vec EXCEPT ![idx + 1] = data]
                    /\ UNCHANGED pm_pc
               ELSE /\ pm_pc' = "panic_index"
                    /\ UNCHANGED output_vec
       ELSE /\ output_senders = {}
            /\ pm_pc' = "join"
            /\ UNCHANGED <<output_channel, output_vec>>
    /\ UNCHANGED <<proxyVars, input, input_vec, num_threads, input_channel,
                   input_sender, output_senders, thread_pc, elem_pair, applied>>

\* for thread in threads { thread.join() }, then output_vec is returned.
JoinThreads ==
    /\ pm_pc = "join"
    /\ \A w \in Threads : thread_pc[w] \in {"unspawned", "exited"}
    /\ pm_pc' = "done"
    /\ UNCHANGED <<proxyVars, input, input_vec, num_threads, output_vec, input_channel,
                   output_channel, input_sender, output_senders, thread_pc, elem_pair,
                   applied>>

\* A thread's input_receiver.recv(): it takes the head of the input channel,
\* blocks on an empty channel whose sender is alive, and on an empty channel
\* without a sender leaves its loop, dropping its output_sender.
ThreadRecv(w) ==
    /\ thread_pc[w] = "recv"
    /\ IF input_channel # <<>>
       THEN /\ elem_pair' = [elem_pair EXCEPT ![w] = Head(input_channel)]
            /\ input_channel' = Tail(input_channel)
            /\ thread_pc' = [thread_pc EXCEPT ![w] = "send"]
            /\ UNCHANGED output_senders
       ELSE /\ ~input_sender
            /\ thread_pc' = [thread_pc EXCEPT ![w] = "exited"]
            /\ output_senders' = output_senders \ {w}
            /\ UNCHANGED <<elem_pair, input_channel>>
    /\ UNCHANGED <<proxyVars, input, input_vec, num_threads, output_vec, output_channel,
                   input_sender, pm_pc, applied>>

\* A thread's output_sender.send((idx, f(data))).
ThreadSend(w) ==
    /\ thread_pc[w] = "send"
    /\ LET idx == elem_pair[w][1]
           data == elem_pair[w][2] IN
       /\ output_channel' = Append(output_channel, <<idx, F(data)>>)
       /\ applied' = [applied EXCEPT ![idx + 1] = @ + 1]
    /\ elem_pair' = [elem_pair EXCEPT ![w] = <<>>]
    /\ thread_pc' = [thread_pc EXCEPT ![w] = "recv"]
    /\ UNCHANGED <<proxyVars, input, input_vec, num_threads, output_vec, input_channel,
                   input_sender, output_senders, pm_pc>>

\* The steps of the calling thread.
Caller ==
    \/ SpawnThreads
    \/ SendInput
    \/ DropInputSender
    \/ DropOutputSender
    \/ RecvOutput
    \/ JoinThreads

\* The steps of one spawned thread.
Worker(w) == ThreadRecv(w) \/ ThreadSend(w)

parallel_map == Caller \/ \E w \in Threads : Worker(w)

\* Every thread that can run is scheduled eventually.
ParallelMapFairness ==
    /\ WF_vars(Caller)
    /\ \A w \in Threads : WF_vars(Worker(w))

ParallelMapSpec == ParallelMapInit /\ [][parallel_map]_vars /\ ParallelMapFairness

----------------------------------------------------------------------------
\* Properties

PanicPcs == {"panic_empty_range", "panic_unwrap", "panic_remove"}

\* The health check's network suspension points.
ProbePoints == {"connect", "write", "read"}

\* The connector's accesses to active_upstream_addresses.
LockPoints == {"len", "get", "remove", "check_empty"}

\* C1: upstream selection never faults: a connector that finds the live set
\* empty ends with the Unreachable error (answered with 502), it neither
\* panics on the empty range nor on an index outside the live set.
C1_SelectionNeverFaults ==
    \A c \in Conns : pc[c] \notin {"panic_empty_range", "panic_unwrap"}

\* C2: when a connector's connect to address A failed, its removal step
\* changes the live set by taking A out of it and nothing else (nothing at
\* all when A is already absent).
C2_FailureRemovesOnlyThatAddress ==
    [][\A c \in Conns :
         (pc[c] = "remove" /\ pc'[c] # "remove")
            => Range(active_upstream_addresses')
                 = Range(active_upstream_addresses) \ {dial_ip[c]}]_vars

\* C3: the rate-limit reset loop runs for the whole process lifetime: the
\* reset task is always either sleeping towards its next clear or clearing.
C3_ResetLoopNeverEnds == reset_pc \in {"sleep", "clear"}

\* C4: no task holds a lock while it is suspended on a network operation.
\* (A connection task's guards are temporaries of one statement; the only
\* guard that outlives a step is the health check's write guard.)
C4_NoLockAcrossNetworkIO ==
    rw_writer = "health_check" => hc_pc \notin ProbePoints

\* C5: while a health-check probe is in flight (it may never complete), no
\* connection task is blocked: every connector at an access to the live set
\* can take its step.
C5_ProbeStallsOnlyHealthCheck ==
    hc_pc \in ProbePoints =>
        \A c \in Conns : pc[c] \in LockPoints => ENABLED connect_to_upstream(c)

\* C6: with max N > 0, the k-th check_rate_limit call for a key since the
\* last clear (or since startup) is allowed iff k <= N, and a refused call is
\* answered with 429.
C6_LimitPerWindow ==
    [][\A c \in Conns :
         (max_requests_per_minute > 0 /\ pc[c] = "rate_check" /\ pc'[c] # "rate_check")
            => /\ (pc'[c] = "forward")
                    <=> (calls'[upstream_ip[c]] <= max_requests_per_minute)
               /\ pc'[c] # "forward" => (pc'[c] = "send_then_loop" /\ sending'[c] = 429)]_vars

\* A request refused before the clear is still being answered while another
\* connection's request, the first since the clear, has been allowed.
C6_Witness ==
    /\ clears = 1
    /\ \E k \in Ips : calls[k] = 1
    /\ \E c1, c2 \in Conns :
         /\ pc[c1] = "send_then_loop" /\ sending[c1] = 429
         /\ pc[c2] = "forward"

\* C7: the length and the element a connector uses for one selection come
\* from the same snapshot of the live set: no write to the live set lies
\* between its length read and its element read.
C7_OneSnapshotPerSelection ==
    \A c \in Conns : pc[c] \in {"connect", "panic_unwrap"} => c \notin stale

\* C8: when a health-check pass completes, every configured upstream has been
\* probed and the live set is exactly the set of upstreams that answered 200
\* in that pass.
C8_PassRebuildsLiveSet ==
    [][(hc_pc # "sleep" /\ hc_pc' = "sleep")
          => /\ probed' = Range(upstream_addresses)
             /\ Range(active_upstream_addresses') = pass_ok']_vars

\* A pass has completed with every upstream answering 200, after the live set
\* had been empty (a connector panicked on it): the upstreams are restored.
C8_Witness ==
    /\ hc_pc = "sleep"
    /\ pass_ok = Range(upstream_addresses)
    /\ active_upstream_addresses = upstream_addresses
    /\ \E c \in Conns : pc[c] = "panic_empty_range"

\* connect_to_upstream ended without a stream.
ConnectorFailed(c) ==
    \/ pc[c] \in PanicPcs
    \/ pc[c] = "send_then_return" /\ upstream_ip[c] = NoAddr

\* C9: a connection for which no live upstream could be reached is answered
\* with 502 and then terminated.
C9_UnreachableAnswered502 ==
    \A c \in Conns :
        ConnectorFailed(c) => (pc[c] = "send_then_return" /\ sending[c] = 502)

\* C10: the live set starts as the configured list, the configured list never
\* changes, and the live set stays within it.
C10_LiveWithinConfigured ==
    /\ active_upstream_addresses = upstream_addresses
    /\ [][/\ upstream_addresses' = upstream_addresses
          /\ Range(active_upstream_addresses') \subseteq Range(upstream_addresses')]_vars

\* A health-check pass found an upstream alive and a connector has since
\* removed one: the live set is a proper, non-empty part of the configured list.
C10_Witness ==
    /\ hc_pc = "sleep"
    /\ pass_ok # {}
    /\ Len(active_upstream_addresses) = 1
    /\ \E c \in Conns : pc[c] = "check_empty"

\* The counter check_rate_limit consults for connections to an upstream.
CounterOf(monitor, upstream) == monitor[IpOf(upstream)]

\* C11: a rate check for a request routed to one configured upstream leaves
\* the counter of every other configured upstream as it was.
C11_CountersPerUpstream ==
    [][\A c \in Conns :
         (pc[c] = "rate_check" /\ pc'[c] # "rate_check")
            => \A other \in Range(upstream_addresses) \ {upstream_conn[c]} :
                 CounterOf(rate_monitor', other) = CounterOf(rate_monitor, other)]_vars

\* The return statements of handle_connection.
ClosedPcs == {"closed", "closed_eof", "closed_read_error"}

\* C12: when the write of an upstream's response to the client fails, the
\* connection ends: the handler does not go back to reading requests.
C12_FailedClientWriteEndsConnection ==
    [][\A c \in Conns :
         (sending[c] \in UpstreamStatuses /\ SendResponseWith(c, FALSE))
            => pc'[c] \in ClosedPcs]_vars

\* C13: a request the rate check refuses is answered with 429 and is not
\* forwarded: the handler goes from the rate check to sending the 429, and
\* from there back to reading the next request on the same connection, with
\* the upstream stream it had.
C13_RefusedAnsweredNotForwarded ==
    [][\A c \in Conns :
         /\ (/\ pc[c] = "rate_check" /\ pc'[c] # "rate_check"
             /\ check_rate_limit(rate_monitor, max_requests_per_minute,
                                 upstream_ip[c]).result = "TOO_MANY_REQUESTS")
               => (pc'[c] = "send_then_loop" /\ sending'[c] = 429)
         /\ (sending[c] = 429 /\ pc'[c] # pc[c])
               => /\ pc[c] = "send_then_loop"
                  /\ pc'[c] = "read_request"
                  /\ upstream_conn'[c] = upstream_conn[c]]_vars

\* The only connection there has been made every call of the window, one more
\* than the limit, and is reading its next request.
C13_Witness ==
    /\ clears = 0
    /\ \E c \in Conns :
         /\ pc[c] = "read_request"
         /\ \A d \in Conns \ {c} : pc[d] = "idle"
         /\ max_requests_per_minute > 0
         /\ calls[upstream_ip[c]] = max_requests_per_minute + 1

\* C14: with a limit configured, every rate check raises the counter of its
\* key by exactly one, allowed or refused; after k rate checks for a key since
\* the last clear its counter is k, whichever connections made them; and no
\* step but the clear lowers a counter.
C14_EveryCallCounted ==
    [][max_requests_per_minute > 0 =>
         /\ \A c \in Conns :
              (pc[c] = "rate_check" /\ pc'[c] # "rate_check")
                 => rate_monitor'[upstream_ip[c]] = rate_monitor[upstream_ip[c]] + 1
         /\ \A k \in Ips : rate_monitor'[k] = calls'[k]
         /\ clears' = clears => \A k \in Ips : rate_monitor'[k] >= rate_monitor[k]]_vars

\* Two connections have each had a request refused in one window, and the
\* counter stands at the number of calls made, above the limit.
C14_Witness ==
    /\ max_requests_per_minute > 0
    /\ \E c1, c2 \in Conns :
         /\ c1 # c2
         /\ pc[c1] = "send_then_loop" /\ sending[c1] = 429
         /\ pc[c2] = "send_then_loop" /\ sending[c2] = 429
         /\ upstream_ip[c1] = upstream_ip[c2]
         /\ rate_monitor[upstream_ip[c1]] = MaxCalls
         /\ MaxCalls > max_requests_per_minute + 1

ConnectorPcs == {"len", "get", "connect", "remove", "check_empty"} \cup PanicPcs

\* C16: once the upstream stream is established, a failed write of a request
\* to it or a failed read of its response makes the handler send 502 and then
\* return; a handler that has left connect_to_upstream never enters it again.
C16_UpstreamFailureEndsConnection ==
    [][\A c \in Conns :
         /\ (upstream_conn[c] # NoAddr
               /\ (ForwardWith(c, FALSE) \/ ReadResponseWith(c, NoStatus)))
               => (pc'[c] = "send_then_return" /\ sending'[c] = 502)
         /\ (pc[c] = "send_then_return" /\ pc'[c] # pc[c]) => pc'[c] = "closed"
         /\ pc[c] \in ClosedPcs => pc'[c] = pc[c]
         /\ pc[c] \notin ConnectorPcs \cup {"idle"}
               => pc'[c] \notin ConnectorPcs \cup {"idle"}]_vars

\* A handler with an established upstream stream is sending the 502 after
\* which it returns.
C16_Witness ==
    \E c \in Conns :
         /\ upstream_conn[c] # NoAddr
         /\ pc[c] = "send_then_return"
         /\ sending[c] = 502

\* C17: a request the parser rejects (malformed, incomplete after at least one
\* byte, bad or mismatched content length, oversized body) is answered with
\* 400, or 413 for the oversized body, and not forwarded; after the answer the
\* handler reads the next request on the same connection, with its upstream
\* stream kept.
C17_ParseErrorRecovered ==
    [][\A c \in Conns :
         /\ \A e \in ParseErrors :
              ReadRequestWith(c, e)
                 => /\ pc'[c] = "send_then_loop"
                    /\ sending'[c] = IF e = "RequestBodyTooLarge" THEN 413 ELSE 400
                    /\ upstream_conn'[c] = upstream_conn[c]
         /\ (sending[c] \in {400, 413} /\ pc'[c] # pc[c])
               => /\ pc[c] = "send_then_loop"
                  /\ pc'[c] = "read_request"
                  /\ upstream_conn'[c] = upstream_conn[c]
                  /\ upstream_conn[c] # NoAddr]_vars

\* One connection is being answered 413 and another 400, both with their
\* upstream stream open.
C17_Witness ==
    \E c1, c2 \in Conns :
         /\ pc[c1] = "send_then_loop" /\ sending[c1] = 413
         /\ pc[c2] = "send_then_loop" /\ sending[c2] = 400
         /\ upstream_conn[c1] # NoAddr /\ upstream_conn[c2] # NoAddr

C19_IndexValidAcrossAcquisitions ==
    \A c \in Conns :
         /\ pc[c] \notin {"panic_unwrap", "panic_remove"}
         /\ (rw_writer = "none" /\ pc[c] \in {"get", "remove"})
               => upstream_idx[c] < Len(active_upstream_addresses)
         /\ (rw_writer = "none" /\ pc[c] = "remove")
               => Get(active_upstream_addresses, upstream_idx[c]) = dial_ip[c]

\* C20: parallel_map with at least one thread always returns, and the vector
\* it returns has the input's length and holds f of the input's element at
\* every index, each element having been given to f exactly once, whatever
\* the order in which the threads run and their results arrive.
C20_ParallelMapReturnsMappedInput ==
    (num_threads >= 1) =>
        /\ <>(pm_pc = "done")
        /\ [](pm_pc = "done" =>
                /\ Len(output_vec) = Len(input)
                /\ \A i \in 1..Len(input) :
                     output_vec[i] = F(input[i]) /\ applied[i] = 1)

\* parallel_map has returned the image of an input of MaxLen elements, not
\* all equal, that more than one thread worked on.
C20_Witness ==
    /\ pm_pc = "done"
    /\ num_threads = MaxThreads
    /\ Len(input) = MaxLen
    /\ input[1] # input[MaxLen]
    /\ output_vec = [i \in 1..MaxLen |-> F(input[i])]

====
